---- MODULE Spec2Model ----
(***************************************************************************)
(* Remote safetensors access layer of gguf-py/gguf/utility.py:             *)
(* RemoteTensor and SafetensorRemote (resolver, header parser, existence   *)
(* probe and the single-request / multi-threaded range fetch engine).      *)
(***************************************************************************)
EXTENDS Integers, Sequences, FiniteSets, TLC

(***************************************************************************)
(* Bounds of the model.                                                    *)
(***************************************************************************)
\* largest value of SafetensorRemote.MULTITHREAD_COUNT that is explored
MaxThreads == 3
\* largest size argument of a direct get_data_by_range call
MaxSize == 5
\* largest start argument of a direct get_data_by_range call
MaxStart == 2
\* largest number of requests of one client call that are not answered
\* faithfully
MaxFaults == 2
\* largest metadata length the alignment step is examined for
MaxLen == 16

(***************************************************************************)
(* Program constants.                                                      *)
(***************************************************************************)
\* SafetensorRemote.ALIGNMENT
ALIGNMENT == 8
\* read_size of get_metadata: 5 MiB in the source, scaled to 24 bytes so
\* that containers shorter than, equal to and longer than the requested
\* prefix, and metadata regions that outgrow it, all occur.
read_size == 24
\* SafetensorRemote.MULTITHREAD_THREDSHOLD as the source sets it: 100 MiB,
\* scaled with read_size (it stays above read_size, as in the source).
DefaultThreshold == 32

(***************************************************************************)
(* Byte strings are sequences of integers 0..255.                          *)
(***************************************************************************)
RECURSIVE Concat(_)
\* b"".join(parts)
Concat(parts) ==
    IF parts = <<>> THEN <<>> ELSE Head(parts) \o Concat(Tail(parts))

\* content[lo:hi] of Python (0-based, hi exclusive, clipped to the length)
Slice(s, lo, hi) ==
    LET h == IF hi < Len(s) THEN hi ELSE Len(s)
        l == IF lo < 0 THEN 0 ELSE lo
    IN  IF l >= h THEN <<>> ELSE [k \in 1..(h - l) |-> s[l + k]]

\* int.from_bytes(raw_data[:8], byteorder='little').  Python integers are
\* unbounded; the three low bytes are summed exactly and any set higher
\* byte saturates the value at 2^24, which is above every length of the
\* model (the value is only compared with len(raw_data) and aligned).
from_bytes_little(b) ==
    IF \E k \in 4..8 : b[k] # 0
    THEN 16777216
    ELSE b[1] + 256 * b[2] + 65536 * b[3]

\* n.to_bytes(8, 'little') of the container writer (fixtures only)
to_bytes_little(n) ==
    [k \in 1..8 |-> CASE k = 1 -> n % 256
                      [] k = 2 -> (n \div 256) % 256
                      [] k = 3 -> (n \div 65536) % 256
                      [] OTHER -> 0]

\* AlignUp with the bug of adding a whole unit to an aligned value
AlignUpAlways(x) == x + (ALIGNMENT - (x % ALIGNMENT))

\* the alignment step of get_metadata
AlignUp(x) ==
    IF x % ALIGNMENT # 0 THEN x + (ALIGNMENT - (x % ALIGNMENT)) ELSE x

(***************************************************************************)
(* JSON documents.  A document is encoded as one identifying byte followed *)
(* by any number of spaces (JSON allows trailing whitespace); json.loads   *)
(* is the partial inverse of that encoding.  An object is a sequence of    *)
(* [name, meta] members in document order, as a Python dict keeps them.    *)
(***************************************************************************)
SPACE == 32

Meta(dtype, shape, offs) ==
    [t |-> "dict", has |-> {"dtype", "shape", "data_offsets"},
     dtype |-> dtype, shape |-> shape, data_offsets |-> offs, map |-> <<>>]

\* a tensor entry without the member key
Lacking(meta, key) == [meta EXCEPT !.has = @ \ {key}]

NonDict ==
    [t |-> "str", has |-> {}, dtype |-> "", shape |-> <<>>,
     data_offsets |-> <<>>, map |-> <<>>]

WeightMap(m) ==
    [t |-> "dict", has |-> {}, dtype |-> "", shape |-> <<>>,
     data_offsets |-> <<>>, map |-> m]

Member(n, m) == [name |-> n, meta |-> m]

Docs ==
    \* headers of container files
    1 :> << Member("w", Meta("F32", <<2>>, <<0, 4>>)),
            Member("__metadata__", NonDict),
            Member("v", Meta("F16", <<1>>, <<4, 6>>)) >>
 @@ 2 :> << Member("w", Meta("I8", <<3>>, <<0, 3>>)),
            Member("u", Meta("I8", <<0>>, <<3, 3>>)) >>
 @@ 3 :> << Member("x", Meta("I8", <<1>>, <<1, 2>>)) >>
 @@ 4 :> << Member("y", Meta("I8", <<1>>, <<3, 2>>)) >>
    \* the tensors of document 1, one per shard
 @@ 5 :> << Member("w", Meta("F32", <<2>>, <<0, 4>>)) >>
 @@ 6 :> << Member("v", Meta("F16", <<1>>, <<0, 2>>)) >>
    \* malformed entries: a value that is no object, a missing "shape",
    \* three data_offsets
 @@ 7 :> << Member("w", Meta("I8", <<1>>, <<0, 1>>)), Member("z", NonDict) >>
 @@ 8 :> << Member("s", Lacking(Meta("I8", <<1>>, <<0, 1>>), "shape")) >>
 @@ 9 :> << Member("t", Meta("I8", <<1>>, <<0, 1, 2>>)) >>
    \* index manifests
 @@ 10 :> << Member("weight_map",
                WeightMap(<< Member("w", "b.st"), Member("x", "ab.st"),
                             Member("v", "a.st"), Member("u", "b.st") >>)) >>
 @@ 11 :> << Member("weight_map",
                WeightMap(<< Member("v", "a.st"), Member("w", "a.st"),
                             Member("u", "b.st"), Member("x", "ab.st") >>)) >>
 @@ 12 :> << Member("metadata", NonDict) >>
 @@ 13 :> << Member("weight_map",
                WeightMap(<< Member("w", "a.st"), Member("v", "b.st") >>)) >>

\* json.loads(bytes.decode('utf-8')): the document, or ok = FALSE where
\* json.JSONDecodeError is raised
json_loads(b) ==
    IF /\ Len(b) >= 1
       /\ b[1] \in DOMAIN Docs
       /\ \A k \in 2..Len(b) : b[k] = SPACE
    THEN [ok |-> TRUE, doc |-> Docs[b[1]]]
    ELSE [ok |-> FALSE, doc |-> <<>>]

\* the JSON text of document d followed by pad spaces
json_dumps(d, pad) == <<d>> \o [k \in 1..pad |-> SPACE]

\* A container file: 8-byte little-endian length, JSON metadata, padding
\* to the alignment, then ndata bytes of tensor data.  Data byte k has the
\* value base + k, so every byte of a data region is distinguishable.
Container(d, pad, ndata, base) ==
    LET js == json_dumps(d, pad)
        D  == AlignUp(8 + Len(js))
    IN  to_bytes_little(Len(js)) \o js
        \o [k \in 1..(D - 8 - Len(js)) |-> 0]
        \o [k \in 1..ndata |-> base + k]

(***************************************************************************)
(* The remote host.  A URL f"{BASE_DOMAIN}/{model_id}/resolve/main/{file}" *)
(* is the record of its parts; a resource is a byte string.                *)
(***************************************************************************)
Url(m, f) == [scheme |-> "https", netloc |-> "huggingface.co", model |-> m, file |-> f]

SINGLE == "model.safetensors"
INDEX  == "model.safetensors.index.json"

ModelIds == {"single", "tiny", "neg", "sharded", "resharded", "both", "none",
             "split", "nomap", "broken"}

Shards(m) ==
    Url(m, "a.st")  :> Container(1, 0, 8, 100)
 @@ Url(m, "ab.st") :> Container(3, 0, 8, 200)
 @@ Url(m, "b.st")  :> Container(2, 0, 8, 150)

World ==
    Url("single", SINGLE)   :> Container(1, 0, 8, 100)
 @@ Url("tiny", SINGLE)     :> Container(3, 2, 2, 100)
 @@ Url("neg", SINGLE)      :> Container(4, 0, 8, 100)
 @@ Url("sharded", INDEX)   :> json_dumps(10, 0)
 @@ Shards("sharded")
 @@ Url("resharded", INDEX) :> json_dumps(11, 1)
 @@ Shards("resharded")
 @@ Url("both", SINGLE)     :> Container(2, 0, 8, 150)
 @@ Url("both", INDEX)      :> json_dumps(10, 0)
 @@ Shards("both")
 @@ Url("blob", "raw")      :> <<60, 61, 62, 63, 64, 65>>
    \* the tensors of "single", one per shard
 @@ Url("split", INDEX)     :> json_dumps(13, 0)
 @@ Url("split", "a.st")    :> Container(5, 0, 8, 100)
 @@ Url("split", "b.st")    :> Container(6, 0, 8, 100)
    \* an index manifest without weight_map
 @@ Url("nomap", INDEX)     :> json_dumps(12, 0)
 @@ Url("nomap", "a.st")    :> Container(1, 0, 8, 100)
    \* a model whose middle shard has a malformed header
 @@ Url("broken", INDEX)    :> json_dumps(10, 0)
 @@ Url("broken", "a.st")   :> Container(1, 0, 8, 100)
 @@ Url("broken", "ab.st")  :> Container(7, 0, 8, 200)
 @@ Url("broken", "b.st")   :> Container(2, 0, 8, 150)
    \* headers with malformed entries
 @@ Url("fmt", "noshape")   :> Container(8, 0, 8, 100)
 @@ Url("fmt", "three")     :> Container(9, 0, 8, 100)
    \* metadata of 8 bytes (8 + 8 is aligned already), and metadata that
    \* outgrows the prefix get_metadata reads
 @@ Url("fmt", "pad7")      :> Container(1, 7, 8, 100)
 @@ Url("fmt", "big")       :> Container(1, 19, 4, 100)
    \* the same file cut off inside its metadata
 @@ Url("fmt", "cut")       :> Slice(Container(1, 19, 4, 100), 0, 20)

\* code points of the shard file names (Python compares str by code point)
chars ==
    "a.st"  :> <<97, 46, 115, 116>>
 @@ "ab.st" :> <<97, 98, 46, 115, 116>>
 @@ "b.st"  :> <<98, 46, 115, 116>>

\* the Range header of a request
NoRange        == [k |-> "none", lo |-> 0, hi |-> 0]
Closed(lo, hi) == [k |-> "closed", lo |-> lo, hi |-> hi]
Open(lo)       == [k |-> "open", lo |-> lo, hi |-> 0]

Response(st, body) == [exc |-> FALSE, status |-> st, body |-> body]
Unreachable == [exc |-> TRUE, status |-> 0, body |-> <<>>]

\* What a range-capable server holding resources res answers to GET url
\* with Range rng.  A byte range whose last position is below its first is
\* invalid and is ignored (RFC 7233 2.1): the whole resource is sent.
FaithfulGet(res, url, rng) ==
    IF url \notin DOMAIN res THEN Response(404, <<>>)
    ELSE LET b == res[url]
             n == Len(b)
         IN  CASE rng.k = "none" -> Response(200, b)
               [] rng.k = "open" ->
                    IF rng.lo < n THEN Response(206, Slice(b, rng.lo, n))
                    ELSE Response(416, <<>>)
               [] OTHER ->
                    IF rng.hi < rng.lo THEN Response(200, b)
                    ELSE IF rng.lo >= n THEN Response(416, <<>>)
                    ELSE Response(206, Slice(b, rng.lo, rng.hi + 1))

\* The ways one request can go: answered faithfully ("ok"), no answer
\* before the timeout or connection lost ("conn"), a server error status
\* ("http"), a body cut one byte short ("short"), Range ignored ("whole").
Kinds == {"ok", "conn", "http", "short", "whole"}

\* requests.get(url, headers={Range: rng}, stream=False, timeout=120)
requests_get(res, url, rng, kind) ==
    LET f == FaithfulGet(res, url, rng)
    IN  CASE kind = "conn"  -> Unreachable
          [] kind = "http"  -> Response(503, <<>>)
          [] kind = "short" -> Response(f.status, Slice(f.body, 0, Len(f.body) - 1))
          [] kind = "whole" -> IF url \in DOMAIN res THEN Response(200, res[url]) ELSE f
          [] OTHER          -> f

\* the kinds that change the answer to this request, while n unfaithful
\* answers have been given already
GetKinds(res, url, rng, n) ==
    {"ok"} \cup {k \in Kinds : /\ n < MaxFaults
                              /\ requests_get(res, url, rng, k) # FaithfulGet(res, url, rng)}

\* requests.head(url, headers={Range: bytes=0-0})
requests_head(res, url, kind) ==
    CASE kind = "conn" -> Unreachable
      [] kind = "http" -> Response(503, <<>>)
      [] kind = "moved" -> Response(302, <<>>)
      [] OTHER ->
           IF url \notin DOMAIN res THEN Response(404, <<>>)
           ELSE IF Len(res[url]) = 0 THEN Response(416, <<>>)
           ELSE Response(206, <<>>)

\* the ways a probe can go: as for GET, and "moved" for a redirect that
\* is not followed to another resource (status 302)
ProbeKinds(n) == IF n < MaxFaults THEN {"ok", "conn", "http", "moved"} ELSE {"ok"}

(***************************************************************************)
(* Values returned or raised.                                              *)
(***************************************************************************)
NoTensors == <<>>
Raise(type, msg, name, at) ==
    [k |-> "err", v |-> <<>>, m |-> NoTensors,
     e |-> [type |-> type, msg |-> msg, name |-> name, at |-> at]]
Bytes(b)   == [k |-> "bytes", v |-> b, m |-> NoTensors,
               e |-> [type |-> "", msg |-> "", name |-> "", at |-> 0]]
TensorMap(m) == [k |-> "map", v |-> <<>>, m |-> m,
               e |-> [type |-> "", msg |-> "", name |-> "", at |-> 0]]
Bool(b)    == [k |-> IF b THEN "True" ELSE "False", v |-> <<>>, m |-> NoTensors,
               e |-> [type |-> "", msg |-> "", name |-> "", at |-> 0]]
None       == [k |-> "None", v |-> <<>>, m |-> NoTensors,
               e |-> [type |-> "", msg |-> "", name |-> "", at |-> 0]]

\* response.raise_for_status() after a requests call; a transport failure
\* surfaces as requests.RequestException
Raised(r, at) ==
    IF r.exc THEN Raise("RequestException", "transport", "", at)
    ELSE IF r.status >= 400 THEN Raise("HTTPError", "status", "", at)
    ELSE None

\* urlvalid with the bug of testing the scheme only
urlvalid_scheme_only(url) == url.scheme # ""

\* urlparse(url) has a scheme and a netloc
urlvalid(url) == url.scheme # "" /\ url.netloc # ""

(***************************************************************************)
(* Header parser: get_metadata and get_list_tensors after the fetch of the *)
(* header prefix has returned raw_data.                                    *)
(***************************************************************************)
\* get_metadata, from the length check on: [ok, metadata, data_start_offset]
\* or the error it raises
get_metadata(raw_data) ==
    IF Len(raw_data) < 8
    THEN [ok |-> FALSE, metadata |-> <<>>, data_start_offset |-> 0,
          err |-> Raise("ValueError", "Not enough data to read metadata size", "", 0)]
    ELSE LET metadata_length == from_bytes_little(Slice(raw_data, 0, 8))
             data_start_offset == AlignUp(8 + metadata_length)
         IN  IF Len(raw_data) < 8 + metadata_length
             THEN [ok |-> FALSE, metadata |-> <<>>, data_start_offset |-> 0,
                   err |-> Raise("ValueError", "Could not read complete metadata", "", 0)]
             ELSE LET metadata == json_loads(Slice(raw_data, 8, 8 + metadata_length))
                  IN  IF ~metadata.ok
                      THEN [ok |-> FALSE, metadata |-> <<>>, data_start_offset |-> 0,
                            err |-> Raise("ValueError", "Failed to parse safetensor metadata as JSON", "", 0)]
                      ELSE [ok |-> TRUE, metadata |-> metadata.doc,
                            data_start_offset |-> data_start_offset, err |-> None]

RemoteTensor(dtype, shape, offset_start, size, url) ==
    [dtype |-> dtype, shape |-> shape, offset_start |-> offset_start,
     size |-> size, url |-> url]

\* res[key] = val on a Python dict
DictSet(d, key, val) ==
    [n \in DOMAIN d \cup {key} |-> IF n = key THEN val ELSE d[n]]

\* EntryError with the bug of validating the reserved key as a tensor
EntryErrorOfAnyKey(name, meta) ==
    IF meta.t # "dict"
    THEN Raise("ValueError", "Invalid metadata for tensor", name, 0)
    ELSE IF {"dtype", "shape", "data_offsets"} \ meta.has # {}
    THEN Raise("ValueError", "Missing key in metadata for tensor", name, 0)
    ELSE IF Len(meta.data_offsets) # 2
    THEN Raise("ValueError", "values to unpack", "", 0)
    ELSE None

\* what one pass of the loop body of get_list_tensors raises, or None
EntryError(name, meta) ==
    IF name = "__metadata__" THEN None
    ELSE IF meta.t # "dict"
    THEN Raise("ValueError", "Invalid metadata for tensor", name, 0)
    ELSE IF "dtype" \notin meta.has
    THEN Raise("ValueError", "Missing key in metadata for tensor: dtype", name, 0)
    ELSE IF "shape" \notin meta.has
    THEN Raise("ValueError", "Missing key in metadata for tensor: shape", name, 0)
    ELSE IF "data_offsets" \notin meta.has
    THEN Raise("ValueError", "Missing key in metadata for tensor: data_offsets", name, 0)
    ELSE IF Len(meta.data_offsets) # 2
    THEN Raise("ValueError", "values to unpack", "", 0)
    ELSE None

\* the RemoteTensor one pass of the loop body builds
EntryTensor(meta, data_start_offset, url) ==
    LET offset_start_relative == meta.data_offsets[1]
        offset_end_relative   == meta.data_offsets[2]
        size         == offset_end_relative - offset_start_relative
        offset_start == data_start_offset + offset_start_relative
    IN  RemoteTensor(meta.dtype, meta.shape, offset_start, size, url)

RECURSIVE ListLoop(_, _, _, _)
\* the for loop of get_list_tensors over metadata.items()
ListLoop(items, data_start_offset, url, res) ==
    IF items = <<>> THEN TensorMap(res)
    ELSE LET it == Head(items)
             er == EntryError(it.name, it.meta)
         IN  IF er.k = "err" THEN er
             ELSE IF it.name = "__metadata__"
             THEN ListLoop(Tail(items), data_start_offset, url, res)
             ELSE ListLoop(Tail(items), data_start_offset, url,
                           DictSet(res, it.name,
                                   EntryTensor(it.meta, data_start_offset, url)))

\* get_list_tensors(url), given what get_data_by_range(url, 0, read_size)
\* returned or raised
get_list_tensors(url, fetched) ==
    IF fetched.k = "err" THEN fetched
    ELSE LET md == get_metadata(fetched.v)
         IN  IF ~md.ok THEN md.err
             ELSE ListLoop(md.metadata, md.data_start_offset, url, NoTensors)

(***************************************************************************)
(* Shard index: index_json.get("weight_map"), set(), sort().               *)
(***************************************************************************)
RECURSIVE LexLess(_, _)
\* a < b for Python str values given as code point sequences
LexLess(a, b) ==
    IF b = <<>> THEN FALSE
    ELSE IF a = <<>> THEN TRUE
    ELSE IF Head(a) # Head(b) THEN Head(a) < Head(b)
    ELSE LexLess(Tail(a), Tail(b))

RECURSIVE Sorted(_)
\* sorted list of a set of file names
Sorted(S) ==
    IF S = {} THEN <<>>
    ELSE LET least == CHOOSE f \in S : \A g \in S \ {f} : LexLess(chars[f], chars[g])
         IN  <<least>> \o Sorted(S \ {least})

\* index_json.get("weight_map") is not None
has_weight_map(index_json) ==
    \E k \in 1..Len(index_json) : index_json[k].name = "weight_map"

\* index_json["weight_map"]
weight_map_of(index_json) ==
    LET k == CHOOSE k \in 1..Len(index_json) : index_json[k].name = "weight_map"
    IN  index_json[k].meta.map

\* What the code raises for an index without "weight_map": the assert
\* statement raises AssertionError; when the interpreter runs with -O the
\* assert is compiled away and index_json["weight_map"] raises KeyError.
MissingWeightMap ==
    {Raise("AssertionError", "weight_map not found in index file", "", 0),
     Raise("KeyError", "weight_map", "", 0)}

\* all_files_of with the bug of taking the file names as the manifest
\* lists them, neither deduplicated nor sorted
all_files_as_listed(weight_map) ==
    [k \in 1..Len(weight_map) |-> weight_map[k].meta]

\* all_files = list(set(weight_map.values())); all_files.sort()
all_files_of(weight_map) ==
    Sorted({weight_map[k].meta : k \in 1..Len(weight_map)})

\* Merge with the bug of keeping the tensor already present
MergeKeepingFirst(tensors, shard) ==
    [n \in DOMAIN tensors \cup DOMAIN shard |->
        IF n \in DOMAIN tensors THEN tensors[n] ELSE shard[n]]

\* Merge with the bug of replacing the map by the tensors of the shard
MergeOnlyLatest(tensors, shard) == shard

\* for key, val in get_list_tensors(url).items(): tensors[key] = val
Merge(tensors, shard) ==
    [n \in DOMAIN tensors \cup DOMAIN shard |->
        IF n \in DOMAIN shard THEN shard[n] ELSE tensors[n]]

(***************************************************************************)
(* Range fetch engine: the pure parts of get_data_by_range.                *)
(***************************************************************************)
\* the Range header of the single-threaded path
single_range(start, size) ==
    IF size > -1 THEN Closed(start, start + size - 1)
    ELSE IF start > 0 THEN Open(start)
    ELSE NoRange

\* the single-threaded path after requests.get returned r
single_result(r, size) ==
    IF Raised(r, 0).k = "err" THEN Raised(r, 0)
    ELSE IF size > -1 /\ Len(r.body) # size
    THEN Raise("IOError", "Single thread downloaded size mismatch", "", 0)
    ELSE Bytes(r.body)

\* chunk_size of chunk i (0-based) of a range of size bytes on n threads
chunk_size_of(size, n, idx) ==
    LET base_chunk_size == size \div n
        remainder       == size % n
    IN  base_chunk_size + (IF idx < remainder THEN 1 ELSE 0)

\* chunk_range with the bug of an exclusive end byte
chunk_range_exclusive(chunk_start, chunk_size) ==
    Closed(chunk_start, chunk_start + chunk_size)

\* the Range header download_chunk builds
chunk_range(chunk_start, chunk_size) ==
    Closed(chunk_start, chunk_start + chunk_size - 1)

\* what download_chunk stores in result_list[index] after requests.get
\* returned r
chunk_result(r, chunk_size, index) ==
    IF Raised(r, index).k = "err" THEN Raised(r, index)
    ELSE IF Len(r.body) # chunk_size
    THEN Raise("IOError", "Downloaded chunk size mismatch", "", index)
    ELSE Bytes(r.body)

RECURSIVE ScanSwallowing(_, _, _, _, _)
\* ScanResults with the bug of skipping a stored exception and returning
\* whatever was collected
ScanSwallowing(res, idx, size, n, final_data_parts) ==
    IF idx >= n THEN Bytes(Concat(final_data_parts))
    ELSE LET result == res[idx + 1]
         IN  IF result.k = "bytes"
             THEN ScanSwallowing(res, idx + 1, size, n, Append(final_data_parts, result.v))
             ELSE ScanSwallowing(res, idx + 1, size, n, final_data_parts)

RECURSIVE ScanPrepending(_, _, _, _, _)
\* ScanResults with the bug of collecting the parts in reverse index order
ScanPrepending(res, idx, size, n, final_data_parts) ==
    IF idx >= n
    THEN LET final_data == Concat(final_data_parts)
         IN  IF Len(final_data) # size
             THEN Raise("IOError", "Final assembled data size mismatch", "", 0)
             ELSE Bytes(final_data)
    ELSE LET result == res[idx + 1]
         IN  IF result.k = "err" THEN result
             ELSE ScanPrepending(res, idx + 1, size, n, <<result.v>> \o final_data_parts)

\* ScanResults with the bug of raising the exception of the highest index
ScanRaisingLast(res, idx, size, n, final_data_parts) ==
    LET failed == {k \in (idx + 1)..n : res[k].k = "err"}
    IN  IF failed # {}
        THEN res[CHOOSE k \in failed : \A j \in failed : j <= k]
        ELSE LET final_data == Concat([k \in 1..n |-> res[k].v])
             IN  IF Len(final_data) # size
                 THEN Raise("IOError", "Final assembled data size mismatch", "", 0)
                 ELSE Bytes(final_data)

RECURSIVE ScanResults(_, _, _, _, _)
\* the loop over results[i] after the join: the first exception met is
\* raised; otherwise the parts, collected in index order, are joined and
\* the length of the whole is checked
ScanResults(res, idx, size, n, final_data_parts) ==
    IF idx >= n
    THEN LET final_data == Concat(final_data_parts)
         IN  IF Len(final_data) # size
             THEN Raise("IOError", "Final assembled data size mismatch", "", 0)
             ELSE Bytes(final_data)
    ELSE LET result == res[idx + 1]
         IN  IF result.k = "err" THEN result
             ELSE IF result.k = "None"
             THEN IF chunk_size_of(size, n, idx) > 0
                  THEN Raise("RuntimeError", "finished without providing data", "", idx)
                  ELSE ScanResults(res, idx + 1, size, n, Append(final_data_parts, <<>>))
             ELSE ScanResults(res, idx + 1, size, n, Append(final_data_parts, result.v))

(***************************************************************************)
(* State.                                                                  *)
(***************************************************************************)
VARIABLES
    MULTITHREAD_THREDSHOLD, \* class attribute of SafetensorRemote
    MULTITHREAD_COUNT,      \* class attribute of SafetensorRemote
    op,                     \* the call made by the client, with its arguments
    pc,                     \* where that call stands
    ret,                    \* what the last call returned or raised
    all_files, fidx, tensors, \* locals of get_list_tensors_hf_model
    f_pc,                   \* where the running get_data_by_range stands
    f_url, f_start, f_size, \* its arguments
    results, threads,       \* its result slots and started threads
    i, current_offset,      \* loop variables of its thread-starting loop
    overtaken,              \* a chunk was stored while one of a lower index was still running
    f_ret,                  \* what it returned or raised
    single_response,               \* the single_response of the request of its single-threaded path
    version,                \* how often the resource of the made tensors was replaced
    log,                    \* requests sent by the calling thread, in order
    gets,                   \* number of GET requests sent during the call
    probed,                 \* results of check_file_exist, in order
    heads,                  \* the responses check_file_exist received, in order
    reads,                  \* urls get_list_tensors was called with, in order
    faults                  \* number of answers so far that were not the faithful one

hfvars    == <<all_files, fidx, tensors>>
fetchvars == <<f_pc, f_url, f_start, f_size, results, threads, i, current_offset, overtaken, f_ret, single_response>>
cfgvars   == <<MULTITHREAD_THREDSHOLD, MULTITHREAD_COUNT, version>>
vars == <<MULTITHREAD_THREDSHOLD, MULTITHREAD_COUNT, op, pc, ret,
          all_files, fidx, tensors, f_pc, f_url, f_start, f_size, results,
          threads, i, current_offset, overtaken, f_ret, single_response, version, log, gets, probed, heads, reads, faults>>

Thresholds == {0, 4, DefaultThreshold}

NoUrl == [scheme |-> "", netloc |-> "", model |-> "", file |-> ""]
BadUrl == [scheme |-> "", netloc |-> "", model |-> "blob", file |-> "raw"]
\* urls that lack only the scheme, only the host
NoSchemeUrl == [Url("blob", "raw") EXCEPT !.scheme = ""]
NoHostUrl == [Url("blob", "raw") EXCEPT !.netloc = ""]

\* the resources of the host after the file of the made tensors was replaced
Replaced == [World EXCEPT ![Url("blob", "raw")] = <<80, 81, 82, 83, 84, 85, 86>>]

\* the resources of the remote host, url -> bytes
remote == IF version = 0 THEN World ELSE Replaced
NoTensor == RemoteTensor("", <<>>, 0, 0, NoUrl)

Op(name, model, url, start, size, tensor, src) ==
    [name |-> name, model |-> model, url |-> url, start |-> start,
     size |-> size, tensor |-> tensor, src |-> src]

Request(method, url, rng) == [method |-> method, url |-> url, rng |-> rng]

Init ==
    /\ MULTITHREAD_THREDSHOLD \in Thresholds
    /\ MULTITHREAD_COUNT \in 0..MaxThreads
    /\ version = 0
    /\ op = Op("", "", NoUrl, 0, 0, NoTensor, "")
    /\ pc = "idle"
    /\ ret = None
    /\ all_files = <<>> /\ fidx = 0 /\ tensors = NoTensors
    /\ f_pc = "off" /\ f_url = NoUrl /\ f_start = 0 /\ f_size = 0
    /\ results = <<>> /\ threads = <<>> /\ i = 0 /\ current_offset = 0 /\ overtaken = FALSE
    /\ f_ret = None /\ single_response = Response(0, <<>>)
    /\ log = <<>> /\ gets = 0 /\ probed = <<>> /\ heads = <<>> /\ reads = <<>>
    /\ faults = 0

\* a call of get_data_by_range(url, start, size) begins
EnterFetch(url, start, size) ==
    /\ f_pc' = "call"
    /\ f_url' = url /\ f_start' = start /\ f_size' = size
    /\ results' = <<>> /\ threads' = <<>> /\ i' = 0 /\ current_offset' = 0 /\ overtaken' = FALSE
    /\ f_ret' = None /\ single_response' = Response(0, <<>>)

\* the call of get_data_by_range has returned to its caller
LeaveFetch ==
    /\ f_pc' = "off"
    /\ f_url' = NoUrl /\ f_start' = 0 /\ f_size' = 0
    /\ results' = <<>> /\ threads' = <<>> /\ i' = 0 /\ current_offset' = 0 /\ overtaken' = FALSE
    /\ f_ret' = None /\ single_response' = Response(0, <<>>)

\* the client starts a new call
Fresh ==
    /\ pc = "idle"
    /\ ret' = None
    /\ all_files' = <<>> /\ fidx' = 0 /\ tensors' = NoTensors
    /\ log' = <<>> /\ gets' = 0 /\ probed' = <<>> /\ heads' = <<>>
    /\ UNCHANGED cfgvars

(***************************************************************************)
(* Calls made by the client.                                               *)
(***************************************************************************)
ListUrls ==
    {Url("single", SINGLE), Url("tiny", SINGLE), Url("both", "b.st"),
     Url("blob", "raw"), Url("neg", SINGLE), Url("broken", "ab.st"),
     Url("fmt", "noshape"), Url("fmt", "three"), Url("fmt", "pad7"), Url("fmt", "big"),
     Url("fmt", "cut")}
FetchUrls == {Url("blob", "raw"), NoSchemeUrl, NoHostUrl}
ExistUrls == {Url("single", SINGLE), Url("none", SINGLE), BadUrl, NoSchemeUrl, NoHostUrl}
MadeTensors ==
    {RemoteTensor("I8", <<1>>, 1, sz, Url("blob", "raw")) : sz \in {-2, -1, 0, 3}}

\* SafetensorRemote.get_list_tensors_hf_model(model_id) is called
Call_hf(model_id) ==
    /\ Fresh
    /\ version = 0
    /\ op' = Op("hf", model_id, NoUrl, 0, 0, NoTensor, "")
    /\ pc' = "probe1"
    /\ reads' = <<>>
    /\ faults' = 0
    /\ UNCHANGED fetchvars

\* SafetensorRemote.get_list_tensors(url) is called
Call_list(url) ==
    /\ Fresh
    /\ version = 0
    /\ op' = Op("list", "", url, 0, 0, NoTensor, "")
    /\ pc' = "meta_list"
    /\ reads' = <<url>>
    /\ faults' = 0
    /\ EnterFetch(url, 0, read_size)

\* RemoteTensor.data() is called on a tensor of the map just returned
Call_data_of_map(name) ==
    /\ pc = "idle"
    /\ version = 0
    /\ ret.k = "map"
    /\ name \in DOMAIN ret.m
    /\ op' = Op("data", op.model, op.url, 0, 0, ret.m[name], op.name)
    /\ pc' = "data"
    /\ ret' = None
    /\ log' = <<>> /\ gets' = 0 /\ probed' = <<>> /\ heads' = <<>> /\ reads' = <<>>
    /\ EnterFetch(ret.m[name].url, ret.m[name].offset_start, ret.m[name].size)
    /\ UNCHANGED <<cfgvars, hfvars, faults>>

\* Call_data with the bug of keeping the bytes of the last read of the
\* tensor and giving them back without a fetch
Call_data_cached(t) ==
    IF pc = "idle" /\ op.name = "data" /\ op.tensor = t /\ ret.k = "bytes"
    THEN /\ op' = [op EXCEPT !.src = IF version = 0 THEN "made" ELSE "again"]
         /\ UNCHANGED <<cfgvars, pc, ret, hfvars, fetchvars, log, gets, probed,
                        heads, reads, faults>>
    ELSE /\ Fresh
         /\ version = 0 \/ t = op.tensor
         /\ op' = Op("data", "", NoUrl, 0, 0, t, IF version = 0 THEN "made" ELSE "again")
         /\ pc' = "data"
         /\ reads' = <<>>
         /\ faults' = 0
         /\ EnterFetch(t.url, t.offset_start, t.size)

\* RemoteTensor.data() is called on a tensor the client constructed; after
\* the resource was replaced, the call explored is data() on the tensor
\* read before (src "again")
Call_data(t) ==
    /\ Fresh
    /\ version = 0 \/ t = op.tensor
    /\ op' = Op("data", "", NoUrl, 0, 0, t, IF version = 0 THEN "made" ELSE "again")
    /\ pc' = "data"
    /\ reads' = <<>>
    /\ faults' = 0
    /\ EnterFetch(t.url, t.offset_start, t.size)

\* SafetensorRemote.check_file_exist(url) is called
Call_exist(url) ==
    /\ Fresh
    /\ version = 0
    /\ op' = Op("exist", "", url, 0, 0, NoTensor, "")
    /\ pc' = "exist"
    /\ reads' = <<>>
    /\ faults' = 0
    /\ UNCHANGED fetchvars

\* between two data() calls on a made tensor its resource is replaced on
\* the host (explored once)
Replace ==
    /\ pc = "idle"
    /\ version = 0
    /\ op.name = "data" /\ op.src = "made"
    /\ ret.k = "bytes"
    /\ version' = 1
    /\ UNCHANGED <<MULTITHREAD_THREDSHOLD, MULTITHREAD_COUNT, op, pc, ret, hfvars,
                   fetchvars, log, gets, probed, heads, reads, faults>>

\* SafetensorRemote.get_data_by_range(url, start, size) is called
Call_fetch(url, start, size) ==
    /\ Fresh
    /\ version = 0
    /\ op' = Op("fetch", "", url, start, size, NoTensor, "")
    /\ pc' = "fetch"
    /\ reads' = <<>>
    /\ faults' = 0
    /\ EnterFetch(url, start, size)

(***************************************************************************)
(* get_data_by_range.                                                      *)
(***************************************************************************)
\* parallel_path with the bug of leaving a size equal to the threshold to
\* the single request
parallel_path_above(size, threshold, count) == size > threshold /\ count > 1

\* the condition of the multithreading path
parallel_path(size, threshold, count) == size >= threshold /\ count > 1

\* urlparse finds no scheme or no host: ValueError
InvalidUrl ==
    /\ f_pc = "call"
    /\ ~urlvalid(f_url)
    /\ f_ret' = Raise("ValueError", "Invalid URL", "", 0)
    /\ f_pc' = "ret"
    /\ UNCHANGED <<cfgvars, op, pc, ret, hfvars, f_url, f_start, f_size, single_response, results,
                   threads, i, current_offset, overtaken, log, gets, probed, heads, reads, faults>>

\* the single-threaded path: one request, status and length checks
SingleRequest ==
    /\ f_pc = "call"
    /\ urlvalid(f_url)
    /\ ~parallel_path(f_size, MULTITHREAD_THREDSHOLD, MULTITHREAD_COUNT)
    /\ \E kind \in GetKinds(remote, f_url, single_range(f_start, f_size), faults) :
          /\ single_response' = requests_get(remote, f_url, single_range(f_start, f_size), kind)
          /\ f_ret' = single_result(
                 requests_get(remote, f_url, single_range(f_start, f_size), kind), f_size)
          /\ faults' = faults + (IF kind = "ok" THEN 0 ELSE 1)
    /\ log' = Append(log, Request("GET", f_url, single_range(f_start, f_size)))
    /\ gets' = gets + 1
    /\ f_pc' = "ret"
    /\ UNCHANGED <<cfgvars, op, pc, ret, hfvars, f_url, f_start, f_size, results,
                   threads, i, current_offset, overtaken, probed, heads, reads>>

\* the multithreading path is entered: results = [None] * num_threads
ParallelEnter ==
    /\ f_pc = "call"
    /\ urlvalid(f_url)
    /\ parallel_path(f_size, MULTITHREAD_THREDSHOLD, MULTITHREAD_COUNT)
    /\ results' = [k \in 1..MULTITHREAD_COUNT |-> None]
    /\ threads' = <<>>
    /\ i' = 0
    /\ current_offset' = f_start
    /\ overtaken' = FALSE
    /\ f_pc' = "spawn"
    /\ UNCHANGED <<cfgvars, op, pc, ret, hfvars, f_url, f_start, f_size, single_response, f_ret,
                   log, gets, probed, heads, reads, faults>>

Thread(index, chunk_start, chunk_size) ==
    [index |-> index, chunk_start |-> chunk_start, chunk_size |-> chunk_size,
     alive |-> TRUE, sent |-> 0, stored |-> 0,
     answer |-> Response(0, <<>>)]

\* one pass of the loop that computes chunk sizes and starts the threads
StartChunk ==
    /\ f_pc = "spawn"
    /\ LET chunk_size == chunk_size_of(f_size, MULTITHREAD_COUNT, i)
       IN  IF chunk_size = 0
           THEN /\ results' = [results EXCEPT ![i + 1] = Bytes(<<>>)]
                /\ UNCHANGED <<threads, current_offset>>
           ELSE /\ threads' = Append(threads, Thread(i, current_offset, chunk_size))
                /\ current_offset' = current_offset + chunk_size
                /\ UNCHANGED results
    /\ i' = i + 1
    /\ f_pc' = IF i + 1 = MULTITHREAD_COUNT THEN "join" ELSE "spawn"
    /\ UNCHANGED <<cfgvars, op, pc, ret, hfvars, f_url, f_start, f_size, single_response, f_ret,
                   overtaken, log, gets, probed, heads, reads, faults>>

\* download_chunk with the bug of storing into the first slot, whatever the
\* index of the chunk
download_chunk_shared_slot(t) ==
    /\ f_pc \in {"spawn", "join"}
    /\ t \in 1..Len(threads)
    /\ threads[t].alive
    /\ LET th  == threads[t]
           rng == chunk_range(th.chunk_start, th.chunk_size)
       IN  \E kind \in GetKinds(remote, f_url, rng, faults) \ {"whole"} :
              /\ results' = [results EXCEPT ![1] =
                    chunk_result(requests_get(remote, f_url, rng, kind),
                                 th.chunk_size, th.index)]
              /\ faults' = faults + (IF kind = "ok" THEN 0 ELSE 1)
              /\ threads' = [threads EXCEPT
                    ![t].alive = FALSE, ![t].sent = @ + 1, ![t].stored = @ + 1,
                    ![t].answer = requests_get(remote, f_url, rng, kind)]
              /\ overtaken' = (overtaken \/ \E u \in 1..(t - 1) : threads[u].alive)
    /\ gets' = gets + 1
    /\ UNCHANGED <<cfgvars, op, pc, ret, hfvars, f_pc, f_url, f_start, f_size, single_response,
                   i, current_offset, f_ret, log, probed, heads, reads>>

\* download_chunk with the bug of asking once more after a request that
\* failed
download_chunk_retrying(t) ==
    /\ f_pc \in {"spawn", "join"}
    /\ t \in 1..Len(threads)
    /\ threads[t].alive
    /\ LET th  == threads[t]
           rng == chunk_range(th.chunk_start, th.chunk_size)
       IN  \E kind \in GetKinds(remote, f_url, rng, faults) \ {"whole"} :
              LET r == requests_get(remote, f_url, rng, kind)
              IN  /\ faults' = faults + (IF kind = "ok" THEN 0 ELSE 1)
                  /\ IF chunk_result(r, th.chunk_size, th.index).k = "err" /\ th.sent = 0
                     THEN /\ threads' = [threads EXCEPT ![t].sent = @ + 1, ![t].answer = r]
                          /\ UNCHANGED <<results, overtaken>>
                     ELSE /\ results' = [results EXCEPT ![th.index + 1] =
                                chunk_result(r, th.chunk_size, th.index)]
                          /\ threads' = [threads EXCEPT
                                ![t].alive = FALSE, ![t].sent = @ + 1, ![t].stored = @ + 1,
                                ![t].answer = r]
                          /\ overtaken' = (overtaken \/ \E u \in 1..(t - 1) : threads[u].alive)
    /\ gets' = gets + 1
    /\ UNCHANGED <<cfgvars, op, pc, ret, hfvars, f_pc, f_url, f_start, f_size, single_response,
                   i, current_offset, f_ret, log, probed, heads, reads>>

\* the worker thread threads[t] runs download_chunk to its end (a body of
\* the wrong length is explored as one cut short; the server that ignores
\* Range is explored on the requests of the calling thread)
download_chunk(t) ==
    /\ f_pc \in {"spawn", "join"}
    /\ t \in 1..Len(threads)
    /\ threads[t].alive
    /\ LET th  == threads[t]
           rng == chunk_range(th.chunk_start, th.chunk_size)
       IN  \E kind \in GetKinds(remote, f_url, rng, faults) \ {"whole"} :
              /\ results' = [results EXCEPT ![th.index + 1] =
                    chunk_result(requests_get(remote, f_url, rng, kind),
                                 th.chunk_size, th.index)]
              /\ faults' = faults + (IF kind = "ok" THEN 0 ELSE 1)
              \* bookkeeping: the answer received, and whether a thread of a
              \* lower index was still running at this moment
              /\ threads' = [threads EXCEPT
                    ![t].alive = FALSE, ![t].sent = @ + 1, ![t].stored = @ + 1,
                    ![t].answer = requests_get(remote, f_url, rng, kind)]
              /\ overtaken' = (overtaken \/ \E u \in 1..(t - 1) : threads[u].alive)
    /\ gets' = gets + 1
    /\ UNCHANGED <<cfgvars, op, pc, ret, hfvars, f_pc, f_url, f_start, f_size, single_response,
                   i, current_offset, f_ret, log, probed, heads, reads>>

\* Join with the bug of no longer waiting once a thread has stored an
\* exception
JoinOnFirstError ==
    /\ f_pc = "join"
    /\ \/ \A t \in 1..Len(threads) : ~threads[t].alive
       \/ \E k \in 1..Len(results) : results[k].k = "err"
    /\ f_ret' = ScanResults(results, 0, f_size, MULTITHREAD_COUNT, <<>>)
    /\ f_pc' = "ret"
    /\ UNCHANGED <<cfgvars, op, pc, ret, hfvars, f_url, f_start, f_size, single_response, results,
                   threads, i, current_offset, overtaken, log, gets, probed, heads, reads, faults>>

\* thread.join() has returned for every started thread; the results are
\* scanned and assembled
Join ==
    /\ f_pc = "join"
    /\ \A t \in 1..Len(threads) : ~threads[t].alive
    /\ f_ret' = ScanResults(results, 0, f_size, MULTITHREAD_COUNT, <<>>)
    /\ f_pc' = "ret"
    /\ UNCHANGED <<cfgvars, op, pc, ret, hfvars, f_url, f_start, f_size, single_response, results,
                   threads, i, current_offset, overtaken, log, gets, probed, heads, reads, faults>>

(***************************************************************************)
(* check_file_exist and get_list_tensors_hf_model.                         *)
(***************************************************************************)
\* check_file_exist with the bug of taking only 2xx for success
check_file_exist_2xx(res, url, kind) ==
    LET response == requests_head(res, url, kind)
    IN  IF response.exc THEN FALSE
        ELSE 200 <= response.status /\ response.status < 300

\* check_file_exist(url) for a well-formed url: the status test, and False
\* for requests.RequestException
check_file_exist(res, url, kind) ==
    LET response == requests_head(res, url, kind)
    IN  IF response.exc THEN FALSE
        ELSE 200 <= response.status /\ response.status < 400

Probed(url, val) == [url |-> url, val |-> val]

\* ProbeSingle with the bug of going on to case 2 whatever the probe says
ProbeSingleFallingThrough ==
    /\ pc = "probe1"
    /\ LET url == Url(op.model, SINGLE)
       IN  \E kind \in ProbeKinds(faults) :
             /\ log' = Append(log, Request("HEAD", url, Closed(0, 0)))
             /\ probed' = Append(probed, Probed(url, check_file_exist(remote, url, kind)))
             /\ heads' = Append(heads, requests_head(remote, url, kind))
             /\ faults' = faults + (IF kind = "ok" THEN 0 ELSE 1)
    /\ pc' = "probe2"
    /\ UNCHANGED <<cfgvars, op, ret, hfvars, gets, reads, fetchvars>>

\* case 1: the probe of model.safetensors and, when it exists, the call of
\* get_list_tensors on it
ProbeSingle ==
    /\ pc = "probe1"
    /\ LET url == Url(op.model, SINGLE)
       IN  \E kind \in ProbeKinds(faults) :
             LET is_single_file == check_file_exist(remote, url, kind)
             IN  /\ log' = Append(log, Request("HEAD", url, Closed(0, 0)))
                 /\ probed' = Append(probed, Probed(url, is_single_file))
                 /\ heads' = Append(heads, requests_head(remote, url, kind))
                 /\ faults' = faults + (IF kind = "ok" THEN 0 ELSE 1)
                 /\ IF is_single_file
                    THEN /\ pc' = "meta_single"
                         /\ reads' = Append(reads, url)
                         /\ EnterFetch(url, 0, read_size)
                    ELSE /\ pc' = "probe2"
                         /\ UNCHANGED <<reads, fetchvars>>
    /\ UNCHANGED <<cfgvars, op, ret, hfvars, gets>>

\* ProbeIndex with the bug of fetching the index whatever the probe says
ProbeIndexFetchingAnyway ==
    /\ pc = "probe2"
    /\ LET index_url == Url(op.model, INDEX)
       IN  \E kind \in ProbeKinds(faults) :
             /\ log' = Append(log, Request("HEAD", index_url, Closed(0, 0)))
             /\ probed' = Append(probed, Probed(index_url, check_file_exist(remote, index_url, kind)))
             /\ heads' = Append(heads, requests_head(remote, index_url, kind))
             /\ faults' = faults + (IF kind = "ok" THEN 0 ELSE 1)
             /\ EnterFetch(index_url, 0, -1)
    /\ pc' = "index"
    /\ UNCHANGED <<cfgvars, op, ret, hfvars, gets, reads>>

\* case 2: the probe of the index file; the index is fetched when it
\* exists, otherwise ValueError is raised
ProbeIndex ==
    /\ pc = "probe2"
    /\ LET index_url == Url(op.model, INDEX)
       IN  \E kind \in ProbeKinds(faults) :
             LET is_multiple_files == check_file_exist(remote, index_url, kind)
             IN  /\ log' = Append(log, Request("HEAD", index_url, Closed(0, 0)))
                 /\ probed' = Append(probed, Probed(index_url, is_multiple_files))
                 /\ heads' = Append(heads, requests_head(remote, index_url, kind))
                 /\ faults' = faults + (IF kind = "ok" THEN 0 ELSE 1)
                 /\ IF is_multiple_files
                    THEN /\ pc' = "index"
                         /\ EnterFetch(index_url, 0, -1)
                         /\ ret' = ret
                    ELSE /\ pc' = "idle"
                         /\ ret' = Raise("ValueError",
                                "does not have any safetensor files", op.model, 0)
                         /\ UNCHANGED fetchvars
    /\ UNCHANGED <<cfgvars, op, hfvars, gets, reads>>

\* check_file_exist called by the client: the url test, the probe, and
\* the boolean returned
CheckFileExist ==
    /\ pc = "exist"
    /\ IF ~urlvalid(op.url)
       THEN /\ ret' = Raise("ValueError", "Invalid URL", "", 0)
            /\ UNCHANGED <<log, probed, heads, faults>>
       ELSE \E kind \in ProbeKinds(faults) :
               /\ log' = Append(log, Request("HEAD", op.url, Closed(0, 0)))
               /\ probed' = Append(probed, Probed(op.url, check_file_exist(remote, op.url, kind)))
               /\ heads' = Append(heads, requests_head(remote, op.url, kind))
               /\ faults' = faults + (IF kind = "ok" THEN 0 ELSE 1)
               /\ ret' = Bool(check_file_exist(remote, op.url, kind))
    /\ pc' = "idle"
    /\ UNCHANGED <<cfgvars, op, hfvars, gets, reads, fetchvars>>

\* requests.head is called without a timeout: when the server never
\* answers, the probe never returns and the call stays blocked in it
ProbeBlocked ==
    /\ pc \in {"probe1", "probe2", "exist"}
    /\ pc = "exist" => urlvalid(op.url)
    /\ faults < MaxFaults
    /\ log' = Append(log, Request("HEAD",
                 CASE pc = "probe1" -> Url(op.model, SINGLE)
                   [] pc = "probe2" -> Url(op.model, INDEX)
                   [] OTHER         -> op.url,
                 Closed(0, 0)))
    /\ faults' = faults + 1
    /\ pc' = "blocked"
    /\ UNCHANGED <<cfgvars, op, ret, hfvars, gets, probed, heads, reads, fetchvars>>

\* the call returns val to the client
Return(val) ==
    /\ pc' = "idle"
    /\ ret' = val
    /\ LeaveFetch

\* the index file has been fetched: decode, weight_map, sorted file list,
\* and the call of get_list_tensors on the first shard
IndexReturn ==
    /\ pc = "index"
    /\ f_pc = "ret"
    /\ IF f_ret.k = "err"
       THEN Return(f_ret) /\ UNCHANGED <<hfvars, reads>>
       ELSE LET index_json == json_loads(f_ret.v)
            IN  IF ~index_json.ok
                THEN /\ Return(Raise("JSONDecodeError", "index file", "", 0))
                     /\ UNCHANGED <<hfvars, reads>>
                ELSE IF ~has_weight_map(index_json.doc)
                THEN /\ \E e \in MissingWeightMap : Return(e)
                     /\ UNCHANGED <<hfvars, reads>>
                ELSE LET files == all_files_of(weight_map_of(index_json.doc))
                     IN  /\ all_files' = files
                         /\ tensors' = NoTensors
                         /\ IF files = <<>>
                            THEN /\ Return(TensorMap(NoTensors))
                                 /\ UNCHANGED <<fidx, reads>>
                            ELSE /\ fidx' = 1
                                 /\ pc' = "meta_shard"
                                 /\ ret' = ret
                                 /\ reads' = Append(reads, Url(op.model, files[1]))
                                 /\ EnterFetch(Url(op.model, files[1]), 0, read_size)
    /\ UNCHANGED <<cfgvars, op, log, gets, probed, heads, faults>>

\* ShardReturn with the bug of returning the tensors merged so far when a
\* shard fails
ShardReturnPartial ==
    /\ pc = "meta_shard"
    /\ f_pc = "ret"
    /\ LET listed == get_list_tensors(f_url, f_ret)
       IN  IF listed.k = "err"
           THEN Return(TensorMap(tensors)) /\ UNCHANGED <<hfvars, reads>>
           ELSE /\ tensors' = Merge(tensors, listed.m)
                /\ IF fidx < Len(all_files)
                   THEN /\ fidx' = fidx + 1
                        /\ pc' = "meta_shard"
                        /\ ret' = ret
                        /\ reads' = Append(reads, Url(op.model, all_files[fidx + 1]))
                        /\ EnterFetch(Url(op.model, all_files[fidx + 1]), 0, read_size)
                   ELSE /\ Return(TensorMap(Merge(tensors, listed.m)))
                        /\ UNCHANGED <<fidx, reads>>
                /\ UNCHANGED all_files
    /\ UNCHANGED <<cfgvars, op, log, gets, probed, heads, faults>>

\* get_list_tensors of shard all_files[fidx] has its header bytes: parse,
\* merge into tensors, go on with the next shard or return
ShardReturn ==
    /\ pc = "meta_shard"
    /\ f_pc = "ret"
    /\ LET listed == get_list_tensors(f_url, f_ret)
       IN  IF listed.k = "err"
           THEN Return(listed) /\ UNCHANGED <<hfvars, reads>>
           ELSE /\ tensors' = Merge(tensors, listed.m)
                /\ IF fidx < Len(all_files)
                   THEN /\ fidx' = fidx + 1
                        /\ pc' = "meta_shard"
                        /\ ret' = ret
                        /\ reads' = Append(reads, Url(op.model, all_files[fidx + 1]))
                        /\ EnterFetch(Url(op.model, all_files[fidx + 1]), 0, read_size)
                   ELSE /\ Return(TensorMap(Merge(tensors, listed.m)))
                        /\ UNCHANGED <<fidx, reads>>
                /\ UNCHANGED all_files
    /\ UNCHANGED <<cfgvars, op, log, gets, probed, heads, faults>>

\* get_list_tensors of model.safetensors has its header bytes (case 1)
SingleReturn ==
    /\ pc = "meta_single"
    /\ f_pc = "ret"
    /\ Return(get_list_tensors(f_url, f_ret))
    /\ UNCHANGED <<cfgvars, op, hfvars, log, gets, probed, heads, reads, faults>>

\* get_list_tensors called by the client has its header bytes
ListReturn ==
    /\ pc = "meta_list"
    /\ f_pc = "ret"
    /\ Return(get_list_tensors(f_url, f_ret))
    /\ UNCHANGED <<cfgvars, op, hfvars, log, gets, probed, heads, reads, faults>>

\* RemoteTensor.data(): bytearray(get_data_by_range(...))
DataReturn ==
    /\ pc = "data"
    /\ f_pc = "ret"
    /\ Return(f_ret)
    /\ UNCHANGED <<cfgvars, op, hfvars, log, gets, probed, heads, reads, faults>>

\* get_data_by_range called by the client returns
FetchReturn ==
    /\ pc = "fetch"
    /\ f_pc = "ret"
    /\ Return(f_ret)
    /\ UNCHANGED <<cfgvars, op, hfvars, log, gets, probed, heads, reads, faults>>

Next ==
    \/ \E model_id \in ModelIds : Call_hf(model_id)
    \/ \E url \in ListUrls : Call_list(url)
    \/ \E name \in {"w", "v", "u", "x", "y"} : Call_data_of_map(name)
    \/ \E t \in MadeTensors : Call_data(t)
    \/ \E url \in FetchUrls, start \in 0..MaxStart, size \in -1..MaxSize :
          \* a url that is rejected is tried with one start and two sizes
          /\ urlvalid(url) \/ (start = 0 /\ size \in {-1, MaxSize})
          /\ Call_fetch(url, start, size)
    \/ \E url \in ExistUrls : Call_exist(url)
    \/ Replace
    \/ CheckFileExist
    \/ ProbeBlocked
    \/ InvalidUrl
    \/ SingleRequest
    \/ ParallelEnter
    \/ StartChunk
    \/ \E t \in 1..MaxThreads : download_chunk(t)
    \/ Join
    \/ ProbeSingle
    \/ ProbeIndex
    \/ IndexReturn
    \/ ShardReturn
    \/ SingleReturn
    \/ ListReturn
    \/ DataReturn
    \/ FetchReturn

Spec == Init /\ [][Next]_vars

\* the steps of a running call: those of the calling thread and of the
\* worker threads
Running ==
    \/ InvalidUrl
    \/ SingleRequest
    \/ ParallelEnter
    \/ StartChunk
    \/ \E t \in 1..MaxThreads : download_chunk(t)
    \/ Join
    \/ ProbeSingle
    \/ ProbeIndex
    \/ CheckFileExist
    \/ IndexReturn
    \/ ShardReturn
    \/ SingleReturn
    \/ ListReturn
    \/ DataReturn
    \/ FetchReturn

\* the interpreter keeps scheduling the threads of a running call: a step
\* that stays possible is taken
LiveSpec == Init /\ [][Next]_vars /\ WF_vars(Running)

(***************************************************************************)
(* Properties.                                                             *)
(***************************************************************************)
Returned(name) == pc = "idle" /\ op.name = name /\ ret.k # "None"

\* every request of the running call was answered faithfully
faithful == faults = 0

\* the bytes [start, start + size) of the resource at url
Region(url, start, size) == Slice(remote[url], start, start + size)

\* the files served that are well-formed containers
ValidContainers ==
    {u \in DOMAIN remote : /\ u.file \in {SINGLE, "a.st", "ab.st", "b.st"}
                            /\ u.model \notin {"neg", "broken"}}

\* C1: RemoteTensor.data() returns a byte sequence whose length equals the
\* tensor's size, or fails, whatever the size field is.
C1_DataLengthIsSize ==
    (Returned("data") /\ ret.k = "bytes") => Len(ret.v) = op.tensor.size

\* C2: round trip.  For a valid container of any total length served
\* faithfully, get_list_tensors(url) succeeds, and data() on every tensor
\* it returned yields exactly the bytes of the tensor's region.
C2_RoundTrip ==
    /\ (Returned("list") /\ faithful /\ op.url \in ValidContainers) => ret.k = "map"
    /\ (Returned("data") /\ faithful /\ op.src = "list" /\ op.url \in ValidContainers)
          => /\ ret.k = "bytes"
             /\ ret.v = Region(op.tensor.url, op.tensor.offset_start, op.tensor.size)

\* the running get_data_by_range took the multithreading path and has
\* produced its outcome
ParallelDone == f_pc = "ret" /\ Len(results) > 0

\* what the single-threaded path yields for the same arguments when its
\* one request is answered faithfully
SingleWould(url, start, size) ==
    single_result(FaithfulGet(remote, url, single_range(start, size)), size)

\* C3: chunking is transparent.  For a static resource served faithfully
\* and size >= 0, the bytes the multithreading path returns are the bytes
\* the single-request path returns for the same (url, start, size).
C3_ChunkingTransparent ==
    (ParallelDone /\ faithful /\ f_ret.k = "bytes")
        => f_ret = SingleWould(f_url, f_start, f_size)

\* C3 for requests of at least one byte (the part of C3 the code keeps)
C3_TransparentFromOneByte ==
    (ParallelDone /\ faithful /\ f_ret.k = "bytes" /\ f_size >= 1)
        => f_ret = SingleWould(f_url, f_start, f_size)

\* the request of thread th failed: transport error, non-success status
\* or a body whose length is not the chunk size
ChunkFailed(th) ==
    /\ ~th.alive
    /\ \/ th.answer.exc
       \/ th.answer.status >= 400
       \/ Len(th.answer.body) # th.chunk_size

\* C4: in the parallel path, if at least one chunk request fails, the
\* whole call raises an error and returns no bytes, whichever chunk failed
\* and however many sibling chunks succeeded.
C4_AnyChunkFailureFailsCall ==
    (ParallelDone /\ \E t \in 1..Len(threads) : ChunkFailed(threads[t]))
        => f_ret.k = "err"

\* a parallel fetch raised although all chunks but one delivered their bytes
C4_Witness ==
    /\ ParallelDone
    /\ f_ret.k = "err"
    /\ Len(threads) >= 2
    /\ \E t \in 1..Len(threads) :
          /\ t > 1
          /\ ChunkFailed(threads[t])
          /\ \A u \in 1..Len(threads) : u # t => ~ChunkFailed(threads[u])

\* C5: when every chunk task succeeds, the returned bytes are the chunk
\* contents joined in chunk-index order, whatever the order in which the
\* tasks completed; served faithfully, they are the resource bytes
\* [start, start + size).
C5_ReassembledInIndexOrder ==
    (ParallelDone /\ \A t \in 1..Len(threads) : ~ChunkFailed(threads[t]))
        => /\ f_ret.k = "bytes"
           /\ f_ret.v = Concat([t \in 1..Len(threads) |-> threads[t].answer.body])
           /\ faithful => f_ret.v = Region(f_url, f_start, f_size)

\* all chunks succeeded, a chunk of a higher index completed before one of
\* a lower index, and the bytes of the range were returned
C5_Witness ==
    /\ ParallelDone
    /\ faithful
    /\ Len(threads) >= 3
    /\ \A t \in 1..Len(threads) : ~ChunkFailed(threads[t])
    /\ overtaken
    /\ f_ret.k = "bytes"
    /\ f_ret.v = Region(f_url, f_start, f_size)
    /\ f_size >= 3

RECURSIVE SumSizes(_)
SumSizes(ths) == IF ths = <<>> THEN 0 ELSE Head(ths).chunk_size + SumSizes(Tail(ths))

\* the byte positions thread th asks for in its Range header
Asked(th) ==
    LET rng == chunk_range(th.chunk_start, th.chunk_size) IN rng.lo .. rng.hi

\* the thread-starting loop of the multithreading path has finished
Partitioned == f_pc \in {"join", "ret"} /\ Len(results) > 0

\* the size the loop gave chunk idx: that of its thread, 0 if none started
SizeGiven(idx) ==
    IF \E t \in 1..Len(threads) : threads[t].index = idx
    THEN (CHOOSE th \in {threads[t] : t \in 1..Len(threads)} : th.index = idx).chunk_size
    ELSE 0

\* C6: the parallel path partitions [start, start + size) into N chunks in
\* index order: chunk i has size size \div N plus 1 if i < size % N, sizes
\* differ by at most 1 and sum to size, chunk i+1 begins where chunk i
\* ends, and the inclusive Range intervals of the non-empty chunks are
\* pairwise disjoint and cover exactly start .. start + size - 1.
C6_Partition ==
    Partitioned =>
        LET N == MULTITHREAD_COUNT
        IN  /\ \A idx \in 0..(N - 1) :
                  SizeGiven(idx) = (f_size \div N) + (IF idx < f_size % N THEN 1 ELSE 0)
            /\ \A a, b \in 0..(N - 1) : SizeGiven(a) - SizeGiven(b) <= 1
            /\ SumSizes(threads) = f_size
            /\ \A t \in 1..Len(threads) :
                  /\ threads[t].chunk_size >= 1
                  /\ threads[t].chunk_start =
                        IF t = 1 THEN f_start
                        ELSE threads[t - 1].chunk_start + threads[t - 1].chunk_size
                  /\ t > 1 => threads[t - 1].index < threads[t].index
            /\ \A t, u \in 1..Len(threads) :
                  t # u => Asked(threads[t]) \cap Asked(threads[u]) = {}
            /\ UNION {Asked(threads[t]) : t \in 1..Len(threads)}
                  = f_start .. (f_start + f_size - 1)

\* a range whose size is no multiple of the thread count has been
\* partitioned, as has one smaller than the thread count
C6_Witness ==
    /\ Partitioned
    /\ f_start >= 1
    /\ f_size % MULTITHREAD_COUNT >= 2
    /\ Len(threads) = MULTITHREAD_COUNT

\* the tensor map the header of the file at url describes
TensorsOf(url) == get_list_tensors(url, Bytes(Slice(remote[url], 0, read_size)))

\* get_list_tensors_hf_model is in single-file mode: the first probe said True
SingleMode == op.name = "hf" /\ Len(probed) >= 1 /\ probed[1].val

\* C7: if the probe of model.safetensors returns true, the result is the
\* tensor map of that one file, the index manifest is neither probed nor
\* fetched and no shard file is read; the index manifest is probed only
\* after the single-file probe returned false.
C7_SingleFileMode ==
    /\ op.name = "hf" =>
          \A k \in 1..Len(probed) :
             probed[k].url.file = INDEX =>
                /\ k = 2
                /\ probed[1] = Probed(Url(op.model, SINGLE), FALSE)
    /\ SingleMode =>
          LET url == Url(op.model, SINGLE)
          IN  /\ probed = <<Probed(url, TRUE)>>
              /\ \A k \in 1..Len(log) : log[k].url = url
              /\ reads = <<url>>
              /\ f_pc # "off" => f_url = url
              /\ (pc = "idle" /\ ret.k = "map") => ret = TensorsOf(url)

\* the single file was found although an index and shards exist as well,
\* and its tensor map was returned
C7_Witness ==
    /\ SingleMode
    /\ Returned("hf")
    /\ op.model = "both"
    /\ Url("both", INDEX) \in DOMAIN remote
    /\ ret.k = "map"
    /\ DOMAIN ret.m = {"w", "u"}

\* get_list_tensors_hf_model is in multi-file mode: the second probe said True
MultiMode == op.name = "hf" /\ Len(probed) = 2 /\ probed[2].val

\* the shard file names the index manifest of model m lists, in its order
Listed(m) ==
    IF Url(m, INDEX) \notin DOMAIN remote THEN <<>>
    ELSE LET index_json == json_loads(remote[Url(m, INDEX)])
         IN  IF index_json.ok /\ has_weight_map(index_json.doc)
             THEN LET wm == weight_map_of(index_json.doc)
                  IN  [k \in 1..Len(wm) |-> wm[k].meta]
             ELSE <<>>

\* the shard file names in ascending order of their code points
Ascending == <<"a.st", "ab.st", "b.st">>

\* the ascending sequence of the distinct file names of a manifest
ExpectedReads(m) ==
    LET named  == {Listed(m)[k] : k \in 1..Len(Listed(m))}
        keep(f) == f \in named
    IN  SelectSeq(Ascending, keep)

IsPrefix(a, b) == Len(a) <= Len(b) /\ \A k \in 1..Len(a) : a[k] = b[k]

\* C8: in multi-file mode the header of each distinct shard file name of
\* weight_map is parsed once, in ascending lexicographic order, whatever
\* the order and multiplicity of the names in the manifest: the reads made
\* so far are the first ones of that ascending sequence, and all of it
\* when the map is returned.
C8_ShardsReadOnceInOrder ==
    MultiMode
      => LET files == [k \in 1..Len(reads) |-> reads[k].file]
         IN  /\ \A k \in 1..Len(reads) : reads[k] = Url(op.model, reads[k].file)
             /\ IsPrefix(files, ExpectedReads(op.model))
             /\ (pc = "idle" /\ ret.k = "map") => files = ExpectedReads(op.model)

\* a manifest that lists b.st first and twice was resolved, and the three
\* shards were read as a.st, ab.st, b.st
C8_Witness ==
    /\ MultiMode
    /\ Returned("hf")
    /\ ret.k = "map"
    /\ Listed(op.model) = <<"b.st", "ab.st", "a.st", "b.st">>
    /\ reads = <<Url(op.model, "a.st"), Url(op.model, "ab.st"), Url(op.model, "b.st")>>

\* the shards of model m that declare the tensor name
Declaring(m, name) ==
    {f \in {Listed(m)[k] : k \in 1..Len(Listed(m))} :
        name \in DOMAIN TensorsOf(Url(m, f)).m}

\* the one of them that comes last in sorted order
LastDeclaring(m, name) ==
    CHOOSE f \in Declaring(m, name) :
        \A g \in Declaring(m, name) \ {f} : LexLess(chars[g], chars[f])

\* the manifest of model m has a weight_map and the header of every shard
\* it names is one get_list_tensors accepts
WellFormedShards(m) ==
    /\ Listed(m) # <<>>
    /\ \A k \in 1..Len(Listed(m)) : TensorsOf(Url(m, Listed(m)[k])).k = "map"

\* C9: in multi-file mode, a tensor name declared by several shards maps
\* to the RemoteTensor of the shard that is last in sorted order among
\* them; no error is raised, and the key set is the union of the shards'
\* tensor names.
C9_LastShardWins ==
    (MultiMode /\ Returned("hf"))
      => /\ (faithful /\ WellFormedShards(op.model)) => ret.k = "map"
         /\ ret.k = "map" =>
               /\ DOMAIN ret.m =
                     UNION {DOMAIN TensorsOf(Url(op.model, Listed(op.model)[k])).m :
                               k \in 1..Len(Listed(op.model))}
               /\ \A name \in DOMAIN ret.m :
                     ret.m[name] =
                        TensorsOf(Url(op.model, LastDeclaring(op.model, name))).m[name]

\* w is declared by a.st (F32) and by b.st (I8): the resolved map holds
\* the tensor of b.st
C9_Witness ==
    /\ MultiMode
    /\ Returned("hf")
    /\ ret.k = "map"
    /\ Declaring(op.model, "w") = {"a.st", "b.st"}
    /\ ret.m["w"].url = Url(op.model, "b.st")
    /\ ret.m["w"].dtype = "I8"
    /\ TensorsOf(Url(op.model, "a.st")).m["w"].dtype = "F32"

\* C10: if both probes return false, the call fails with the not-found
\* error naming the model, and no GET request has been issued: only the
\* two probes.
C10_NotFound ==
    (op.name = "hf" /\ Len(probed) = 2 /\ ~probed[1].val /\ ~probed[2].val)
      => /\ pc = "idle"
         /\ ret = Raise("ValueError", "does not have any safetensor files", op.model, 0)
         /\ gets = 0
         /\ f_pc = "off"
         /\ reads = <<>>
         /\ log = << Request("HEAD", Url(op.model, SINGLE), Closed(0, 0)),
                     Request("HEAD", Url(op.model, INDEX), Closed(0, 0)) >>

\* a model with neither file was asked for and the error names it
C10_Witness ==
    /\ Returned("hf")
    /\ op.model = "none"
    /\ Len(probed) = 2
    /\ faithful
    /\ ret.e.type = "ValueError"
    /\ ret.e.name = "none"
    /\ gets = 0

(***************************************************************************)
(* Layout equivalence, existence probe, alignment.                         *)
(***************************************************************************)
\* dtype and shape of every tensor of a map
Described(m) == [n \in DOMAIN m |-> [dtype |-> m[n].dtype, shape |-> m[n].shape]]

\* Model m is a multi-shard layout of the tensors of the single file of
\* model s: every shard the manifest names is read, and every tensor of
\* the single file is declared by exactly one shard, with the same dtype
\* and shape, and nothing else is declared.
SameTensors(s, m) ==
    LET one    == TensorsOf(Url(s, SINGLE))
        shards == {Listed(m)[k] : k \in 1..Len(Listed(m))}
    IN  /\ one.k = "map"
        /\ shards # {}
        /\ \A f \in shards : TensorsOf(Url(m, f)).k = "map"
        /\ \A n \in DOMAIN one.m :
              /\ Cardinality(Declaring(m, n)) = 1
              /\ \A f \in Declaring(m, n) :
                    Described(TensorsOf(Url(m, f)).m)[n] = Described(one.m)[n]
        /\ \A f \in shards : DOMAIN TensorsOf(Url(m, f)).m \subseteq DOMAIN one.m

\* the models with a single file, and those with an index manifest
SingleLayouts == {m \in ModelIds : Url(m, SINGLE) \in DOMAIN remote}
ShardLayouts == {m \in ModelIds : Url(m, INDEX) \in DOMAIN remote}

\* the layouts that are equivalent to the layout of the model resolved
EquivalentTo(model) ==
    {pair \in SingleLayouts \X ShardLayouts :
        /\ model \in {pair[1], pair[2]}
        /\ pair[1] # pair[2]
        /\ SameTensors(pair[1], pair[2])}

\* C11: resolving a single-file layout and resolving a multi-shard layout
\* that holds the same tensors give maps with the same tensor names and,
\* for every name, the same dtype and shape.
C11_LayoutsAgree ==
    Returned("hf") =>
        \A pair \in EquivalentTo(op.model) :
            LET expected == Described(TensorsOf(Url(pair[1], SINGLE)).m)
            IN  /\ faithful => ret.k = "map"
                /\ ret.k = "map" => Described(ret.m) = expected

\* the two-shard layout of the tensors of "single" was resolved: the names
\* are those of the single file, offsets and urls differ
C11_Witness ==
    /\ Returned("hf")
    /\ op.model = "split"
    /\ <<"single", "split">> \in EquivalentTo(op.model)
    /\ ret.k = "map"
    /\ DOMAIN ret.m = {"w", "v"}
    /\ ret.m["w"].url # ret.m["v"].url
    /\ ret.m["v"].offset_start # TensorsOf(Url("single", SINGLE)).m["v"].offset_start

\* C12: check_file_exist yields a boolean for a well-formed url: true
\* exactly when the single_response status is in 200..399, false for a 4xx/5xx
\* status and false for a transport failure; a transport failure of a
\* probe never reaches the caller of the resolver (an error returned
\* before any GET was sent is the not-found error).
C12_ProbeIsBoolean ==
    /\ Len(heads) = Len(probed)
    /\ \A k \in 1..Len(probed) :
          /\ probed[k].val \in BOOLEAN
          /\ probed[k].val = (/\ ~heads[k].exc
                              /\ heads[k].status >= 200
                              /\ heads[k].status <= 399)
          /\ heads[k].exc => ~probed[k].val
          /\ (~heads[k].exc /\ heads[k].status >= 400) => ~probed[k].val
    /\ (op.name = "hf" /\ gets = 0 /\ ret.k = "err")
          => ret = Raise("ValueError", "does not have any safetensor files", op.model, 0)

\* the first probe met a transport failure and gave false, the second was
\* answered with a redirect status and gave true, and the call went on
C12_Witness ==
    /\ op.name = "hf"
    /\ Len(probed) = 2
    /\ heads[1].exc /\ ~probed[1].val
    /\ heads[2].status = 302 /\ probed[2].val
    /\ pc = "index"

\* the header prefix has been fetched and get_metadata is about to parse it
HeaderFetched ==
    /\ pc \in {"meta_list", "meta_single", "meta_shard"}
    /\ f_pc = "ret"
    /\ f_ret.k = "bytes"
    /\ Len(f_ret.v) >= 8

\* D is the smallest multiple of 8 that is >= 8 + L, and aligning it again
\* leaves it unchanged
SmallestMultiple(D, L) ==
    /\ D >= 8 + L
    /\ D % 8 = 0
    /\ D < 8 + L + 8
    /\ AlignUp(D) = D

\* C13: for every metadata length L >= 0 the data_start_offset get_metadata
\* computes is the smallest multiple of 8 that is >= 8 + L, and the
\* alignment step leaves an aligned value unchanged.
C13_AlignedDataStart ==
    /\ \A L \in 0..MaxLen : SmallestMultiple(AlignUp(8 + L), L)
    /\ (HeaderFetched /\ get_metadata(f_ret.v).ok)
          => SmallestMultiple(get_metadata(f_ret.v).data_start_offset,
                              from_bytes_little(Slice(f_ret.v, 0, 8)))

\* a header whose 8 + L is aligned already was parsed: the offset is 8 + L
C13_Witness ==
    /\ HeaderFetched
    /\ get_metadata(f_ret.v).ok
    /\ from_bytes_little(Slice(f_ret.v, 0, 8)) = 8
    /\ get_metadata(f_ret.v).data_start_offset = 16

(***************************************************************************)
(* Header parsing: tensor ranges, short and truncated headers, entry       *)
(* validation, index manifest without weight_map.                          *)
(***************************************************************************)
\* what get_metadata makes of the prefix of the file at url when the
\* prefix is delivered as the server holds it
Header(url) == get_metadata(Slice(remote[url], 0, read_size))

\* the tensor the claim describes for a header entry with data_offsets
\* [s, e], aligned data start D and file url
TensorOfEntry(meta, D, url) ==
    RemoteTensor(meta.dtype, meta.shape, D + meta.data_offsets[1],
                 meta.data_offsets[2] - meta.data_offsets[1], url)

\* a finished get_data_by_range of data() asked for exactly the bytes
\* [offset_start, offset_start + size) of the tensor's url: one inclusive
\* Range on the single path, adjoining chunk ranges on the parallel path
AskedExactly(t) ==
    LET range == Closed(t.offset_start, t.offset_start + t.size - 1)
    IN  /\ f_url = t.url
        /\ IF Len(results) = 0
           THEN log = <<Request("GET", t.url, range)>>
           ELSE /\ log = <<>>
                /\ UNION {Asked(threads[k]) : k \in 1..Len(threads)} = range.lo .. range.hi

\* C14: for every tensor entry with data_offsets [s, e] in a header whose
\* aligned data start is D, get_list_tensors(url) builds a RemoteTensor
\* with offset_start = D + s, size = e - s and that url, and data() on it
\* requests exactly the byte range [D + s, D + e) of the url (inclusive
\* Range bytes = D + s through D + e - 1).
C14_TensorRange ==
    /\ (Returned("list") /\ ret.k = "map")
          => LET h == Header(op.url)
             IN  \A k \in 1..Len(h.metadata) :
                    h.metadata[k].name # "__metadata__"
                       => ret.m[h.metadata[k].name] =
                             TensorOfEntry(h.metadata[k].meta, h.data_start_offset, op.url)
    /\ (pc = "data" /\ op.src = "list" /\ f_pc = "ret") => AskedExactly(op.tensor)

\* C14 for the entries whose offsets are ordered, start <= end
C14_RangeOfOrderedOffsets ==
    /\ (Returned("list") /\ ret.k = "map")
          => LET h == Header(op.url)
             IN  \A k \in 1..Len(h.metadata) :
                    h.metadata[k].name # "__metadata__"
                       => ret.m[h.metadata[k].name] =
                             TensorOfEntry(h.metadata[k].meta, h.data_start_offset, op.url)
    /\ (pc = "data" /\ op.src = "list" /\ f_pc = "ret" /\ op.tensor.size >= 0)
          => AskedExactly(op.tensor)

\* C15: get_metadata(url) fails with the format error "Not enough data to
\* read metadata size" whenever the resource makes fewer than 8 bytes
\* available; the failure is not a byte-count IOError of the fetch engine.
C15_TooShortForLengthPrefix ==
    (Returned("list") /\ faithful /\ Len(remote[op.url]) < 8)
        => ret = Raise("ValueError", "Not enough data to read metadata size", "", 0)

\* the metadata length the first 8 bytes of the file at url declare
DeclaredLength(url) == from_bytes_little(Slice(remote[url], 0, 8))

\* the number of bytes of the file at url that the prefix request can get
Available(url) ==
    IF Len(remote[url]) < read_size THEN Len(remote[url]) ELSE read_size

\* the metadata region the file at url declares ends after the bytes that
\* can be fetched
Truncated(url) ==
    /\ Len(remote[url]) >= 8
    /\ 8 + DeclaredLength(url) > Available(url)

\* C16: get_metadata(url) fails with a format error whenever
\* 8 + metadataLength exceeds the number of bytes actually fetched; it
\* returns no metadata of a truncated region.
C16_TruncatedMetadata ==
    (Returned("list") /\ faithful /\ Truncated(op.url))
        => /\ ret.k = "err"
           /\ ret.e.type = "ValueError"

\* C16 for files that are at least as long as the prefix get_metadata asks
\* for: the check of line 209 is reached and raises
C16_TruncatedByThePrefix ==
    (Returned("list") /\ faithful /\ Truncated(op.url) /\ Len(remote[op.url]) >= read_size)
        => ret = Raise("ValueError", "Could not read complete metadata", "", 0)

\* the entry is none the parser may accept: no object, a key missing, not
\* exactly two offsets, or start > end
Malformed(meta) ==
    \/ meta.t # "dict"
    \/ {"dtype", "shape", "data_offsets"} \ meta.has # {}
    \/ Len(meta.data_offsets) # 2
    \/ meta.data_offsets[1] > meta.data_offsets[2]

\* the positions of the malformed non-reserved entries of a header
MalformedAt(items) ==
    {k \in 1..Len(items) : items[k].name # "__metadata__" /\ Malformed(items[k].meta)}

\* the header of the file at url reaches the entry loop of get_list_tensors
EntriesRead(url) == Len(remote[url]) >= read_size /\ Header(url).ok

\* C17: get_list_tensors rejects, with a format error naming the tensor,
\* every non-reserved entry that is no object, lacks dtype, shape or
\* data_offsets, or whose data_offsets are not two integers with
\* start <= end; every RemoteTensor of a returned map has size >= 0.
C17_EntriesValidated ==
    /\ (Returned("list") /\ faithful /\ EntriesRead(op.url)
          /\ MalformedAt(Header(op.url).metadata) # {})
          => LET items == Header(op.url).metadata
                 first == CHOOSE k \in MalformedAt(items) :
                             \A j \in MalformedAt(items) : k <= j
             IN  /\ ret.k = "err"
                 /\ ret.e.type = "ValueError"
                 /\ ret.e.name = items[first].name
    /\ (Returned("list") /\ ret.k = "map")
          => \A n \in DOMAIN ret.m : ret.m[n].size >= 0

\* C17 for the entries that are no object or lack a key
C17_ObjectsWithAllKeys ==
    (Returned("list") /\ faithful /\ EntriesRead(op.url))
        => LET items == Header(op.url).metadata
               bad   == {k \in 1..Len(items) :
                           /\ items[k].name # "__metadata__"
                           /\ \/ items[k].meta.t # "dict"
                              \/ {"dtype", "shape", "data_offsets"} \ items[k].meta.has # {}}
           IN  (bad # {} /\ \A k \in bad : \A j \in MalformedAt(items) : k <= j)
                  => /\ ret.k = "err"
                     /\ ret.e.type = "ValueError"
                     /\ \E k \in bad : ret.e.name = items[k].name

\* the index manifest of the model parses as JSON and has no weight_map
WithoutWeightMap(m) ==
    /\ Url(m, INDEX) \in DOMAIN remote
    /\ json_loads(remote[Url(m, INDEX)]).ok
    /\ ~has_weight_map(json_loads(remote[Url(m, INDEX)]).doc)

\* C18: in multi-file mode, if the index manifest parses as JSON but has
\* no weight_map, get_list_tensors_hf_model fails with the format error,
\* reads no shard header and returns no tensor map.
C18_MissingWeightMap ==
    (Returned("hf") /\ MultiMode /\ faithful /\ WithoutWeightMap(op.model))
        => /\ ret.k = "err"
           /\ ret.e.type = "ValueError"
           /\ reads = <<>>

\* C18 without the type of the error: the call fails and no shard is read
C18_NoShardReadWithoutWeightMap ==
    (Returned("hf") /\ MultiMode /\ faithful /\ WithoutWeightMap(op.model))
        => /\ ret \in MissingWeightMap
           /\ reads = <<>>
           /\ gets = 1

(***************************************************************************)
(* All-or-nothing resolution, reserved key.                                *)
(***************************************************************************)
\* the positions, in reading order, of the shards of model m whose header
\* get_list_tensors does not accept
FailingShards(m) ==
    {k \in 1..Len(ExpectedReads(m)) : TensorsOf(Url(m, ExpectedReads(m)[k])).k = "err"}

\* what a finished multi-file resolution gave back: a map only if no shard
\* failed; with a failing shard, served faithfully, the error of the first
\* one, and the reads end with that shard
NoPartialMap ==
    (Returned("hf") /\ MultiMode)
      => /\ ret.k \in {"map", "err"}
         /\ ret.k = "err" => ret.m = NoTensors
         /\ ret.k = "map" => FailingShards(op.model) = {}
         /\ (faithful /\ FailingShards(op.model) # {})
               => LET first == CHOOSE k \in FailingShards(op.model) :
                                  \A j \in FailingShards(op.model) : k <= j
                  IN  /\ ret = TensorsOf(Url(op.model, ExpectedReads(op.model)[first]))
                      /\ Len(reads) = first

\* the failure, if any, that the resolver meets in the step now due: the
\* fetch of the manifest, or the header parse of a shard
Failure == IF pc = "index" THEN f_ret ELSE get_list_tensors(f_url, f_ret)

\* that failure ends the call: it is raised as it is and nothing more is read
FailureEndsCall ==
    (pc \in {"index", "meta_shard"} /\ f_pc = "ret" /\ Failure.k = "err")
        => /\ pc' = "idle"
           /\ ret' = Failure
           /\ reads' = reads
           /\ f_pc' = "off"

\* C19: get_list_tensors_hf_model is all-or-nothing: if the manifest fetch
\* or the header parse of any shard fails, the call raises that first
\* failure unchanged and returns no map; the tensors merged from earlier
\* shards are not returned and no later shard is read.
C19_AllOrNothing == [] NoPartialMap /\ [][FailureEndsCall]_vars

\* the middle shard of three has a malformed header: the call raised its
\* error after the first shard had been merged, and the last was not read
C19_Witness ==
    /\ Returned("hf")
    /\ MultiMode
    /\ faithful
    /\ ExpectedReads(op.model) = <<"a.st", "ab.st", "b.st">>
    /\ FailingShards(op.model) = {2}
    /\ ret.k = "err"
    /\ ret.e.name = "z"
    /\ reads = <<Url(op.model, "a.st"), Url(op.model, "ab.st")>>
    /\ DOMAIN tensors = {"w", "v"}

\* the key set of the header JSON of the file at url
HeaderNames(url) ==
    {Header(url).metadata[k].name : k \in 1..Len(Header(url).metadata)}

\* C20: the reserved key "__metadata__" never becomes a tensor: the key
\* set of the map get_list_tensors returns is the key set of the header
\* JSON minus "__metadata__", and the reserved entry is skipped without
\* validation of its value.
C20_ReservedKeySkipped ==
    /\ (Returned("list") /\ ret.k = "map")
          => /\ DOMAIN ret.m = HeaderNames(op.url) \ {"__metadata__"}
             /\ "__metadata__" \notin DOMAIN ret.m
    /\ (Returned("list") /\ faithful /\ EntriesRead(op.url)
          /\ MalformedAt(Header(op.url).metadata) = {})
          => ret.k = "map"

\* a header whose "__metadata__" value is no object was listed: the map
\* has the two tensors and not the reserved key
C20_Witness ==
    /\ Returned("list")
    /\ ret.k = "map"
    /\ \E k \in 1..Len(Header(op.url).metadata) :
          /\ Header(op.url).metadata[k].name = "__metadata__"
          /\ Header(op.url).metadata[k].meta.t # "dict"
    /\ DOMAIN ret.m = {"w", "v"}

(***************************************************************************)
(* C21: urls without scheme or host.                                       *)
(***************************************************************************)
InvalidUrlError == Raise("ValueError", "Invalid URL", "", 0)

\* C21: get_data_by_range and check_file_exist, called with a url that
\* lacks its scheme or its host, raise the invalid-URL error and have sent
\* no request; check_file_exist raises it and does not return False.
C21_InvalidUrlRejected ==
    /\ (f_pc = "ret" /\ ~(f_url.scheme # "" /\ f_url.netloc # "")) =>
          f_ret = InvalidUrlError /\ log = <<>> /\ gets = 0
    /\ \A name \in {"fetch", "exist"} :
          (Returned(name) /\ ~(op.url.scheme # "" /\ op.url.netloc # "")) =>
             /\ ret = InvalidUrlError
             /\ log = <<>> /\ gets = 0 /\ probed = <<>> /\ heads = <<>>

\* check_file_exist was called with a url that has a scheme and no host,
\* and has raised
C21_Witness ==
    /\ Returned("exist")
    /\ op.url = NoHostUrl
    /\ ret.k = "err"

(***************************************************************************)
(* C22: the join barrier.                                                  *)
(***************************************************************************)
\* the number of chunks of the running fetch that are not empty
NonEmptyChunks ==
    Cardinality({idx \in 0..(MULTITHREAD_COUNT - 1) :
                    chunk_size_of(f_size, MULTITHREAD_COUNT, idx) > 0})

\* C22: in the parallel path the orchestrating call has no outcome while
\* it starts and joins the threads, and when it has one, a thread was
\* started for every non-empty chunk and every started thread has sent its
\* request and stored its result: none is abandoned, also when a sibling
\* stored an error before.
C22_JoinBarrier ==
    /\ f_pc \in {"spawn", "join"} => f_ret = None
    /\ ParallelDone =>
          /\ Len(threads) = NonEmptyChunks
          /\ \A t \in 1..Len(threads) :
                /\ ~threads[t].alive
                /\ threads[t].sent = 1
                /\ threads[t].stored = 1

\* of two chunks the second failed and stored its exception while the
\* first was still running; the first then delivered its bytes, and only
\* after that the call raised
C22_Witness ==
    /\ ParallelDone
    /\ Len(threads) = 2
    /\ overtaken
    /\ ChunkFailed(threads[2])
    /\ ~ChunkFailed(threads[1])
    /\ results[1].k = "bytes"
    /\ f_ret.k = "err"

(***************************************************************************)
(* C23: which error a parallel fetch raises.                               *)
(***************************************************************************)
\* the started threads whose request failed
FailedThreads == {t \in 1..Len(threads) : ChunkFailed(threads[t])}

\* the exception the worker of thread th stored
StoredError(th) == chunk_result(th.answer, th.chunk_size, th.index)

\* C23: when chunk tasks of a parallel fetch failed, the error raised is
\* the one of the failed chunk with the lowest index, in whatever order
\* the failures happened.
C23_LowestIndexError ==
    (ParallelDone /\ FailedThreads # {}) =>
        LET low == CHOOSE t \in FailedThreads : \A u \in FailedThreads : t <= u
        IN  /\ f_ret = StoredError(threads[low])
            /\ f_ret.k = "err"
            /\ f_ret.e.at = threads[low].index

\* both chunks failed, in different ways, the second before the first, and
\* the error of the first was raised
C23_Witness ==
    /\ ParallelDone
    /\ Len(threads) = 2
    /\ FailedThreads = {1, 2}
    /\ overtaken
    /\ StoredError(threads[1]).e.type # StoredError(threads[2]).e.type
    /\ f_ret = StoredError(threads[1])

(***************************************************************************)
(* C24: path selection.                                                    *)
(***************************************************************************)
\* the running get_data_by_range has its outcome and its url was accepted
FetchDone == f_pc = "ret" /\ f_url.scheme # "" /\ f_url.netloc # ""

\* the calls that make one call of get_data_by_range
OneFetch == op.name \in {"fetch", "data", "list"}

\* C24: the multithreading path (result slots, one per worker) is taken
\* exactly when size >= MULTITHREAD_THREDSHOLD and MULTITHREAD_COUNT > 1;
\* in every other case no slot and no thread exists and exactly one
\* request, a GET of the url, was sent for the call.
C24_PathSelection ==
    FetchDone =>
        /\ Len(results) > 0 <=>
              (f_size >= MULTITHREAD_THREDSHOLD /\ MULTITHREAD_COUNT > 1)
        /\ Len(results) > 0 => Len(results) = MULTITHREAD_COUNT
        /\ Len(results) = 0 =>
              /\ threads = <<>>
              /\ OneFetch => /\ gets = 1
                             /\ Len(log) = 1
                             /\ log[1].method = "GET" /\ log[1].url = f_url

\* a size equal to the threshold went to the multithreading path
C24_Witness ==
    /\ FetchDone
    /\ f_size = MULTITHREAD_THREDSHOLD
    /\ f_size > 0
    /\ Len(results) = MULTITHREAD_COUNT
    /\ Len(threads) >= 2

\* a size above the threshold went to the single request as the worker
\* count was 1, and so did the size -1 with more workers
C24_SingleTaken ==
    /\ FetchDone
    /\ Len(results) = 0
    /\ gets = 1
    /\ \/ f_size > MULTITHREAD_THREDSHOLD /\ MULTITHREAD_COUNT = 1
       \/ f_size = -1 /\ MULTITHREAD_COUNT > 1

(***************************************************************************)
(* C25: the length check of the single request.                            *)
(***************************************************************************)
\* the running get_data_by_range took the single-threaded path and has its
\* outcome
SingleDone == FetchDone /\ Len(results) = 0

\* its one request was answered with a success status
Answered == ~single_response.exc /\ single_response.status < 400

\* C25: on the single-threaded path, whenever size # -1 the call returns
\* only a body of exactly size bytes, and an answered request whose body is
\* shorter or longer raises IOError; only size = -1 goes unchecked.
C25_SingleLengthCheck ==
    (SingleDone /\ f_size # -1) =>
        /\ f_ret.k = "bytes" => Len(f_ret.v) = f_size
        /\ (Answered /\ Len(single_response.body) # f_size) =>
              /\ f_ret.k = "err"
              /\ f_ret.e.type = "IOError"

\* C25 as the code has it: the check is made for size >= 0, and every
\* negative size is returned unchecked
C25_CheckedFromZero ==
    SingleDone =>
        /\ (f_size >= 0 /\ f_ret.k = "bytes") => Len(f_ret.v) = f_size
        /\ (f_size >= 0 /\ Answered /\ Len(single_response.body) # f_size) =>
              /\ f_ret.k = "err"
              /\ f_ret.e.type = "IOError"
        /\ (f_size < 0 /\ Answered) => f_ret = Bytes(single_response.body)

\* a size of -2 was asked for and a body was returned
C25_NegativeSizeUnchecked ==
    /\ SingleDone
    /\ f_size = -2
    /\ f_ret.k = "bytes"
    /\ Len(f_ret.v) > 0

\* a body longer than the size asked for, and one shorter, raised IOError
C25_LongerRaised ==
    /\ SingleDone
    /\ f_size >= 0
    /\ Answered
    /\ Len(single_response.body) > f_size
    /\ f_ret.e.type = "IOError"

(***************************************************************************)
(* C26: the Range header of the single request.                            *)
(***************************************************************************)
\* the Range header of the one request of the single-threaded path
SentRange == log[Len(log)].rng

\* C26: the single-threaded path sends, for size >= 0, the closed range
\* start .. start + size - 1 whose last byte is not below its first; for
\* size = -1 and start > 0 the open range from start; for size = -1 and
\* start = 0 no Range header.
C26_SingleRangeHeader ==
    (SingleDone /\ OneFetch) =>
        /\ f_size >= 0 =>
              /\ SentRange = Closed(f_start, f_start + f_size - 1)
              /\ SentRange.hi >= SentRange.lo
        /\ (f_size = -1 /\ f_start > 0) => SentRange = Open(f_start)
        /\ (f_size = -1 /\ f_start = 0) => SentRange = NoRange

\* C26 as the code has it: the three forms of the header, the closed one
\* with a last byte below the first when size is 0
C26_RangeAsBuilt ==
    (SingleDone /\ OneFetch) =>
        /\ f_size >= 0 => SentRange = Closed(f_start, f_start + f_size - 1)
        /\ f_size >= 1 => SentRange.hi >= SentRange.lo
        /\ (f_size < 0 /\ f_start > 0) => SentRange = Open(f_start)
        /\ (f_size < 0 /\ f_start = 0) => SentRange = NoRange

\* the header bytes=1-0 was sent
C26_EndBelowStart ==
    /\ SingleDone /\ OneFetch
    /\ f_size = 0 /\ f_start = 1
    /\ SentRange = Closed(1, 0)

(***************************************************************************)
(* C27: no retry.                                                          *)
(***************************************************************************)
\* the errors a failed request is raised as: IOError for a body of the
\* wrong length, the errors of requests for transport and status failures
FetchErrors == {"IOError", "RequestException", "HTTPError"}

\* the one request of the single-threaded path failed or its body has not
\* the length asked for
SingleFailed ==
    \/ ~Answered
    \/ f_size >= 0 /\ Len(single_response.body) # f_size

\* C27: within one get_data_by_range call no range is asked for twice: a
\* worker thread sends at most one request, and a finished call has sent
\* one request per started chunk, or the single one; a failed or short
\* answer is raised as IOError or as the error of the transport.
C27_NoRetry ==
    /\ \A t \in 1..Len(threads) :
          /\ threads[t].sent <= 1
          /\ threads[t].alive <=> threads[t].sent = 0
    /\ (FetchDone /\ OneFetch) =>
          gets = (IF Len(results) > 0 THEN Len(threads) ELSE 1)
    /\ (SingleDone /\ SingleFailed) =>
          f_ret.k = "err" /\ f_ret.e.type \in FetchErrors
    /\ (ParallelDone /\ FailedThreads # {}) =>
          f_ret.k = "err" /\ f_ret.e.type \in FetchErrors

\* the request of a chunk was answered with one byte fewer than the chunk
\* has; the call raised IOError and the chunk was asked for once
C27_Witness ==
    /\ ParallelDone /\ OneFetch
    /\ \E t \in 1..Len(threads) :
          /\ ~threads[t].answer.exc
          /\ threads[t].answer.status < 400
          /\ Len(threads[t].answer.body) = threads[t].chunk_size - 1
          /\ threads[t].sent = 1
          /\ f_ret.e.type = "IOError"
          /\ f_ret.e.at = threads[t].index
    /\ gets = Len(threads)

\* the single request was answered one byte short, IOError was raised and
\* no second request was sent
C27_SingleShort ==
    /\ SingleDone /\ OneFetch
    /\ Answered
    /\ f_size >= 1
    /\ Len(single_response.body) = f_size - 1
    /\ f_ret.e.type = "IOError"
    /\ gets = 1

(***************************************************************************)
(* C28: timeouts and termination.                                          *)
(***************************************************************************)
\* C28: every request is made with a timeout, so that a server that never
\* answers blocks no call forever: every call of the client eventually
\* returns or raises.
C28_EveryCallEnds == (pc # "idle") ~> (pc = "idle")

\* C28 for the requests that have the timeout: a call of get_data_by_range
\* eventually has its outcome, and a call that does not probe ends
C28_FetchEnds ==
    /\ (f_pc = "call") ~> (f_pc = "ret")
    /\ (pc \in {"fetch", "data", "meta_list"}) ~> (pc = "idle")

\* a probe whose server never answers has not returned
C28_ProbeHangs ==
    /\ pc = "blocked"
    /\ op.name \in {"exist", "hf"}
    /\ log[Len(log)].method = "HEAD"
    /\ ret = None

(***************************************************************************)
(* C29: the result slots.                                                  *)
(***************************************************************************)
\* the slot of thread th
SlotOf(th) == results[th.index + 1]

\* C29: the slot of a started chunk is empty (None) as long as its thread
\* runs, and from the end of the thread on it holds what this thread
\* stored, once: the bytes of its answer, chunk_size of them, or its
\* exception; the slots of the other chunks hold nothing a thread wrote.
\* So after the join every slot of a non-empty chunk holds bytes or an
\* exception, and the RuntimeError of the scan is never raised.
C29_SlotExclusive ==
    /\ \A t \in 1..Len(threads) :
          LET th == threads[t]
          IN  /\ th.stored <= 1
              /\ th.alive => SlotOf(th) = None /\ th.stored = 0
              /\ ~th.alive =>
                    /\ th.stored = 1
                    /\ SlotOf(th) = StoredError(th)
                    /\ SlotOf(th).k \in {"bytes", "err"}
                    /\ SlotOf(th).k = "bytes" => Len(SlotOf(th).v) = th.chunk_size
    /\ \A k \in 1..Len(results) :
          (\A t \in 1..Len(threads) : threads[t].index # k - 1) =>
              results[k] \in {None, Bytes(<<>>)}
    /\ ParallelDone =>
          \A idx \in 0..(MULTITHREAD_COUNT - 1) :
              chunk_size_of(f_size, MULTITHREAD_COUNT, idx) > 0 =>
                  results[idx + 1].k \in {"bytes", "err"}
    /\ f_ret.e.type # "RuntimeError"
    /\ ret.e.type # "RuntimeError"

\* three chunks were fetched, not in index order; one slot holds an
\* exception and another the bytes of its chunk
C29_Witness ==
    /\ ParallelDone
    /\ Len(threads) = 3
    /\ overtaken
    /\ \E t, u \in 1..3 :
          /\ SlotOf(threads[t]).k = "err"
          /\ SlotOf(threads[u]).k = "bytes"
          /\ Len(SlotOf(threads[u]).v) = threads[u].chunk_size

(***************************************************************************)
(* C30: RemoteTensor.data() keeps nothing.                                 *)
(***************************************************************************)
\* data() was called on a tensor made by the client and has returned; the
\* resource is as it was when the call was made
DataReturned ==
    /\ Returned("data")
    /\ op.src \in {"made", "again"}
    /\ op.src = "again" <=> version = 1

====
